---- MODULE Spec2Model ----
(***************************************************************************)
(* Model of the tcpreplay API (src/src/tcpreplay_api.c): one replay        *)
(* context, its options, the replay loop of tcpreplay_replay() executed    *)
(* by caller threads, and the control / observer calls that other threads  *)
(* make while a replay is in progress.                                     *)
(*                                                                         *)
(* The per-source drivers replay_file / replay_fd / replay_cache are       *)
(* declared in replay.h and are not part of tcpreplay_api.c; they are      *)
(* modelled from section 4.G of the specification ("Per-source driver").   *)
(***************************************************************************)
EXTENDS Integers, Sequences, FiniteSets, TLC

(***************************************************************************)
(* Bounds of the model.                                                    *)
(***************************************************************************)
\* capacity of options->sources[] (MAX_FILES of the headers, scaled down)
MAX_FILES == 2
\* largest value the model passes to tcpreplay_set_loop
MaxLoop == 2
\* passes the model follows a loop counter that has wrapped below zero
MaxWrapPasses == 1
\* packets handed to the send adapter (sent + failed) in the model
MaxSent == 1
\* latest reading of the wall clock
MaxTime == 2
\* transmit length of the packets the sources yield
PktLen == 1

(***************************************************************************)
(* Program constants.                                                      *)
(***************************************************************************)
\* options->loop is a u_int32_t.  The model holds its 32-bit pattern as the
\* two's complement integer: v for v < 2^31, v - 2^32 above (UINT32_MAX is -1).
UINT32_MAX == -1
\* "loop--" on the 32-bit pattern: 0 becomes UINT32_MAX
u32_dec(v) == IF v = 0 THEN UINT32_MAX ELSE v - 1
\* "loop > 0", unsigned: every pattern but 0
u32_positive(v) == v # 0
\* tcpreplay_replay(ctx, -1): "-1 for all pcaps"
ALL_SOURCES == -1
\* "static int int1dlt = -1, int2dlt = -1": no link type recorded yet
NO_DLT == -1
\* "ctx->options->mtu = DEFAULT_MTU"
DEFAULT_MTU == 1500
\* "ctx->options->limit_send = -1": no limit
NO_LIMIT == -1

\* The threads that call tcpreplay_replay(): the dedicated worker, and a
\* second thread of the application.
Threads == {"worker", "second"}
\* the thread the specification dedicates to the replay loop
Workers == {"worker"}

\* values of sources[i].type: a variant the switch of tcpreplay_replay knows
\* (source_filename, source_fd and source_cache select drivers with one and
\* the same contract) and a value it does not know (the default: branch)
SourceTypes == {"source_filename", "source_invalid"}

\* index arguments given to tcpreplay_replay
IdxArgs == -2 .. (MAX_FILES + 1)

\* the interface list of the context: name -> link type (DLT_EN10MB = 1,
\* DLT_NULL = 0), and a name the list does not hold
IntfList == [eth0 |-> 1, lo |-> 0]
IntfArgs == {"eth0", "lo", "nosuchif"}
tcpreplay_intf == {"intf1", "intf2"}

\* tcpreplay_speed_mode
speed_modes == {"speed_multiplier", "speed_mbpsrate", "speed_packetrate",
                "speed_topspeed", "speed_oneatatime"}

\* arguments given to the option setters: values on both sides of the bound
\* the documentation gives for the option
MtuArgs == {63, 64, DEFAULT_MTU}
PpsMultiArgs == 0 .. 2
LimitArgs == -2 .. MaxSent
SpeedArgs == -1 .. 1
CallbackArgs == {"callback1", "callback2"}

\* the threads that only read the statistics
Observers == {"first", "other"}

\* a thread's return value: <<rcode>> once its call has returned, << >> before
NoRet == << >>

VARIABLES
    ctx,        \* tcpreplay_t: flags, current_source, cache cursor, stats, errstr
    options,    \* tcpreplay_opt_t: loop, source_cnt, sources[], routing cache
    pc,         \* per thread: where it is inside tcpreplay_replay
    idx,        \* per thread: the idx argument of the call in progress
    forever,    \* per thread: the branch taken at "if (options->loop > 0)"
    ret,        \* per thread: return value of its last tcpreplay_replay call
    observed    \* per thread: the driver of this call has seen abort and stopped

VARIABLES
    int1dlt,    \* function-local statics of tcpreplay_set_interface
    int2dlt

VARIABLES
    rc          \* return value of the last setter call

\* History of the calls, kept for the properties; the program has no such
\* state.  The actions of the program leave these variables to the
\* specification that uses them.
VARIABLES
    limit_hit,  \* the worker's call in progress has sent the packet that reached limit_send
    held,       \* <<buffer>> as tcpreplay_get_stats gave it to the first observer
    trace,      \* tcpreplay_get_current_source at each driver call of the worker
    n0          \* options->loop as the worker's call in progress found it

vars == <<ctx, options, pc, idx, forever, ret, observed, int1dlt, int2dlt,
          rc, limit_hit, held, trace, n0>>
statics == <<int1dlt, int2dlt>>
history == <<limit_hit, held, trace, n0>>

\* a sendpacket_t * that is NULL; an open handle has open = TRUE
NULL_HANDLE == [open |-> FALSE, dlt |-> -1, abort |-> FALSE]

(***************************************************************************)
(* tcpreplay_init(): the context after construction.  safe_malloc() hands  *)
(* out zeroed memory, so every field init does not assign is 0/false/NULL. *)
(***************************************************************************)
tcpreplay_init_ctx ==
    [ abort          |-> FALSE,
      suspend        |-> FALSE,
      running        |-> FALSE,
      current_source |-> 0,
      cache_byte     |-> 0,
      cache_bit      |-> 0,
      intf1          |-> NULL_HANDLE,
      intf2          |-> NULL_HANDLE,
      errstr         |-> "",
      stats          |-> [ pkts_sent  |-> 0,
                           bytes_sent |-> 0,
                           failed     |-> 0,
                           start_time |-> 0,
                           end_time   |-> 0 ],
      static_stats   |-> [ pkts_sent  |-> 0,
                           bytes_sent |-> 0,
                           failed     |-> 0,
                           start_time |-> 0,
                           end_time   |-> 0 ] ]

tcpreplay_init_options ==
    [ loop       |-> 1,
      source_cnt |-> 0,
      sources    |-> << >>,
      cachedata  |-> FALSE,
      intf1_name |-> "NULL",
      intf2_name |-> "NULL",
      mtu        |-> DEFAULT_MTU,
      limit_send |-> NO_LIMIT,
      speed      |-> [ mode            |-> "speed_multiplier",
                       speed           |-> 1,
                       pps_multi       |-> 0,
                       manual_callback |-> "NULL" ] ]

Init ==
    /\ ctx = tcpreplay_init_ctx
    /\ options = tcpreplay_init_options
    /\ pc = [t \in Threads |-> "idle"]
    /\ idx = [t \in Threads |-> 0]
    /\ forever = [t \in Threads |-> FALSE]
    /\ ret = [t \in Threads |-> NoRet]
    /\ observed = [t \in Threads |-> FALSE]
    /\ int1dlt = NO_DLT
    /\ int2dlt = NO_DLT
    /\ rc = 0
    /\ limit_hit = FALSE
    /\ held = << >>
    /\ trace = << >>
    /\ n0 = 0

(***************************************************************************)
(* Setters.  The context is "mutated exclusively through setter operations *)
(* until replay is entered": the model calls them while no thread is       *)
(* inside tcpreplay_replay().                                              *)
(***************************************************************************)
Configuring == \A t \in Threads : pc[t] = "idle"

seterr(c, msg) == [c EXCEPT !.errstr = msg]

\* tcpreplay_add_pcapfile(): the new slot's filename is set, its type is not:
\* the type is whatever the slot's memory holds.
\* a test that lets one file too many in
has_room_off_by_one(source_cnt) == source_cnt <= MAX_FILES

\* "if (ctx->options->source_cnt < MAX_FILES)"
has_room(source_cnt) == source_cnt < MAX_FILES

tcpreplay_add_pcapfile(type) ==
    /\ Configuring
    /\ IF has_room(options.source_cnt)
       THEN /\ options' = [options EXCEPT
                   !.sources = Append(@, [type |-> type, cached |-> FALSE]),
                   !.source_cnt = @ + 1]
            /\ rc' = 0
            /\ UNCHANGED ctx
       ELSE /\ ctx' = seterr(ctx, "Unable to add more then MAX_FILES files")
            /\ rc' = -1
            /\ UNCHANGED options
    /\ UNCHANGED <<pc, idx, forever, ret, observed, statics>>

tcpreplay_set_loop(value) ==
    /\ Configuring
    /\ options' = [options EXCEPT !.loop = value]
    /\ rc' = 0
    /\ UNCHANGED <<ctx, pc, idx, forever, ret, observed, statics>>

\* read_cache() returns the routing bits or ends the process
tcpreplay_set_tcpprep_cache ==
    /\ Configuring
    /\ IF options.source_cnt > 1
       THEN /\ ctx' = seterr(ctx, "Unable to use tcpprep cache file with a single pcap file")
            /\ rc' = -1
            /\ UNCHANGED options
       ELSE /\ options' = [options EXCEPT !.cachedata = TRUE]
            /\ rc' = 0
            /\ UNCHANGED ctx
    /\ UNCHANGED <<pc, idx, forever, ret, observed, statics>>

\* The option setters store their argument and return 0.
tcpreplay_set_speed_mode(value) ==
    /\ Configuring
    /\ options' = [options EXCEPT !.speed.mode = value]
    /\ rc' = 0
    /\ UNCHANGED <<ctx, pc, idx, forever, ret, observed, statics>>

tcpreplay_set_speed_speed(value) ==
    /\ Configuring
    /\ options' = [options EXCEPT !.speed.speed = value]
    /\ rc' = 0
    /\ UNCHANGED <<ctx, pc, idx, forever, ret, observed, statics>>

tcpreplay_set_speed_pps_multi(value) ==
    /\ Configuring
    /\ options' = [options EXCEPT !.speed.pps_multi = value]
    /\ rc' = 0
    /\ UNCHANGED <<ctx, pc, idx, forever, ret, observed, statics>>

tcpreplay_set_mtu(value) ==
    /\ Configuring
    /\ options' = [options EXCEPT !.mtu = value]
    /\ rc' = 0
    /\ UNCHANGED <<ctx, pc, idx, forever, ret, observed, statics>>

tcpreplay_set_limit_send(value) ==
    /\ Configuring
    /\ options' = [options EXCEPT !.limit_send = value]
    /\ rc' = 0
    /\ UNCHANGED <<ctx, pc, idx, forever, ret, observed, statics>>

\* a test that takes the callback in every speed mode but the manual one
callback_allowed_inverted(mode) == mode # "speed_oneatatime"

\* "if (ctx->options->speed.mode != speed_oneatatime)" refuses the callback
callback_allowed(mode) == mode = "speed_oneatatime"

tcpreplay_set_manual_callback(callback) ==
    /\ Configuring
    /\ IF callback_allowed(options.speed.mode)
       THEN /\ options' = [options EXCEPT !.speed.manual_callback = callback]
            /\ rc' = 0
            /\ UNCHANGED ctx
       ELSE /\ ctx' = seterr(ctx, "Unable to set manual callback because speed mode is not 'speed_oneatatime'")
            /\ rc' = -1
            /\ UNCHANGED options
    /\ UNCHANGED <<pc, idx, forever, ret, observed, statics>>

(***************************************************************************)
(* tcpreplay_replay(ctx, idx)                                              *)
(***************************************************************************)
\* the wall clock never runs backwards: a reading is no earlier than the
\* readings already stored in the statistics (and the epoch is long past)
Max(a, b) == IF a >= b THEN a ELSE b
gettimeofday(c) == Max(1, Max(c.stats.start_time, c.stats.end_time)) .. MaxTime

\* the loop counters the model follows: those tcpreplay_set_loop stores, and
\* the first MaxWrapPasses below UINT32_MAX
LoopInBounds(v) == v \in 1 .. MaxLoop \/ (v <= UINT32_MAX /\ v > UINT32_MAX - MaxWrapPasses)

\* the argument check at the top of tcpreplay_replay
idx_rejected(i, source_cnt) == i < 0 \/ i > source_cnt

\* the thread's locals are dead once the call has returned
Return(t, code) ==
    /\ pc' = [pc EXCEPT ![t] = "idle"]
    /\ ret' = [ret EXCEPT ![t] = <<code>>]
    /\ idx' = [idx EXCEPT ![t] = 0]
    /\ forever' = [forever EXCEPT ![t] = FALSE]
    /\ observed' = [observed EXCEPT ![t] = FALSE]

\* entry: "invalid source index value" and return -1
ReplayReject(t, i) ==
    /\ pc[t] = "idle"
    /\ idx_rejected(i, options.source_cnt)
    /\ ctx' = seterr(ctx, "invalid source index value")
    /\ ret' = [ret EXCEPT ![t] = <<-1>>]
    /\ UNCHANGED <<options, pc, idx, forever, observed, statics, rc>>

\* entry: gettimeofday() fails, return -1
ReplayClockError(t, i) ==
    /\ pc[t] = "idle"
    /\ ~idx_rejected(i, options.source_cnt)
    /\ ctx' = seterr(ctx, "gettimeofday() failed")
    /\ ret' = [ret EXCEPT ![t] = <<-1>>]
    /\ UNCHANGED <<options, pc, idx, forever, observed, statics, rc>>

\* entry: start_time = now, running = true, and the choice of the loop branch.
\* (The file-cache set-up before it rewrites index/cached/packet_cache with
\* the values tcpreplay_add_pcapfile gave them.)
ReplayStart(t, i) ==
    /\ pc[t] = "idle"
    /\ ~idx_rejected(i, options.source_cnt)
    /\ \E tv \in gettimeofday(ctx) :
          ctx' = [ctx EXCEPT !.stats.start_time = tv, !.running = TRUE]
    /\ pc' = [pc EXCEPT ![t] = "while"]
    /\ idx' = [idx EXCEPT ![t] = i]
    /\ forever' = [forever EXCEPT ![t] = ~u32_positive(options.loop)]
    /\ ret' = [ret EXCEPT ![t] = NoRet]
    /\ observed' = [observed EXCEPT ![t] = FALSE]
    /\ UNCHANGED <<options, statics, rc>>

\* a pass that does not go back to the first source
WhileLimitedPass_resumes(t) ==
    /\ pc[t] = "while" /\ ~forever[t]
    /\ options.loop # 0
    /\ LoopInBounds(options.loop)
    /\ options' = [options EXCEPT !.loop = u32_dec(@)]
    /\ pc' = [pc EXCEPT ![t] = "for"]
    /\ UNCHANGED <<ctx, idx, forever, ret, observed, statics, rc>>

\* "while (ctx->options->loop--)": the test is true, a pass begins
WhileLimitedPass(t) ==
    /\ pc[t] = "while" /\ ~forever[t]
    /\ options.loop # 0
    /\ LoopInBounds(options.loop)
    /\ options' = [options EXCEPT !.loop = u32_dec(@)]
    /\ ctx' = [ctx EXCEPT !.current_source = 0]
    /\ pc' = [pc EXCEPT ![t] = "for"]
    /\ UNCHANGED <<idx, forever, ret, observed, statics, rc>>

\* "while (ctx->options->loop--)": the test is false; running = false; return 0
WhileLimitedExit(t) ==
    /\ pc[t] = "while" /\ ~forever[t]
    /\ options.loop = 0
    /\ options' = [options EXCEPT !.loop = u32_dec(@)]
    /\ ctx' = [ctx EXCEPT !.running = FALSE]
    /\ Return(t, 0)
    /\ UNCHANGED <<statics, rc>>

\* "while (1)": a pass begins
WhileForeverPass(t) ==
    /\ pc[t] = "while" /\ forever[t]
    /\ ctx' = [ctx EXCEPT !.current_source = 0]
    /\ pc' = [pc EXCEPT ![t] = "for"]
    /\ UNCHANGED <<options, idx, forever, ret, observed, statics, rc>>

ValidSourceType(type) == type = "source_filename"

\* a loop that hands the cache markers on to the next driver call as they are
ForDrive_keeps_cursor(t) ==
    /\ pc[t] = "for"
    /\ ctx.current_source < options.source_cnt
    /\ ValidSourceType(options.sources[ctx.current_source + 1].type)
    /\ pc' = [pc EXCEPT ![t] = "driver"]
    /\ UNCHANGED <<ctx, options, idx, forever, ret, observed, statics, rc>>

\* the for loop's test is true: reset the cache markers and switch on the type
ForDrive(t) ==
    /\ pc[t] = "for"
    /\ ctx.current_source < options.source_cnt
    /\ ValidSourceType(options.sources[ctx.current_source + 1].type)
    /\ ctx' = [ctx EXCEPT !.cache_byte = 0, !.cache_bit = 0]
    /\ pc' = [pc EXCEPT ![t] = "driver"]
    /\ UNCHANGED <<options, idx, forever, ret, observed, statics, rc>>

\* the switch's default: "Invalid source type", rcode = -1, running = false
ForInvalidType(t) ==
    /\ pc[t] = "for"
    /\ ctx.current_source < options.source_cnt
    /\ ~ValidSourceType(options.sources[ctx.current_source + 1].type)
    /\ ctx' = [ctx EXCEPT !.cache_byte = 0, !.cache_bit = 0,
                          !.errstr = "Invalid source type",
                          !.running = FALSE]
    /\ Return(t, -1)
    /\ UNCHANGED <<options, statics, rc>>

\* the for loop's test is false: back to the while
ForDone(t) ==
    /\ pc[t] = "for"
    /\ ~(ctx.current_source < options.source_cnt)
    /\ pc' = [pc EXCEPT ![t] = "while"]
    /\ UNCHANGED <<ctx, options, idx, forever, ret, observed, statics, rc>>

(***************************************************************************)
(* The per-source driver (specification, section 4.G), one step per packet *)
(***************************************************************************)
\* rcode >= 0: the for loop's "ctx->current_source++"
DriverReturnsClean(t, c) ==
    /\ ctx' = [c EXCEPT !.current_source = @ + 1]
    /\ pc' = [pc EXCEPT ![t] = "for"]

\* 1. If abort, stop.
DriverAbort(t) ==
    /\ pc[t] = "driver"
    /\ ctx.abort
    /\ DriverReturnsClean(t, ctx)
    /\ observed' = [observed EXCEPT ![t] = TRUE]
    /\ UNCHANGED <<options, idx, forever, ret, statics, rc>>

\* 8. "limit_send >= 0 && pkts_sent >= limit_send"
limit_reached(c, o) == o.limit_send >= 0 /\ c.stats.pkts_sent >= o.limit_send

\* 5. resolve the egress via the routing cache: with a cache loaded, the
\* packet takes the bit under the cursor (byte i/8, bit i%8) and the cursor
\* moves on to the next bit
route(c, o) ==
    IF ~o.cachedata THEN c
    ELSE IF c.cache_bit = 7
         THEN [c EXCEPT !.cache_byte = @ + 1, !.cache_bit = 0]
         ELSE [c EXCEPT !.cache_bit = @ + 1]

\* 7. the statistics after a packet has gone out at time tv
packet_sent(c, tv) ==
    [c EXCEPT !.stats.pkts_sent = @ + 1,
              !.stats.bytes_sent = @ + PktLen,
              !.stats.end_time = tv]

\* 2. While suspend, wait;  6. send the packet, on failure count it and go on;
\* 7. update the statistics;  8. at the limit, stop
DriverSend(t, sent) ==
    /\ pc[t] = "driver"
    /\ ~ctx.abort /\ ~ctx.suspend
    /\ ctx.stats.pkts_sent + ctx.stats.failed < MaxSent
    /\ IF sent
       THEN \E tv \in gettimeofday(ctx) :
               LET c == packet_sent(route(ctx, options), tv)
               IN IF limit_reached(c, options)
                  THEN DriverReturnsClean(t, c)
                  ELSE ctx' = c /\ UNCHANGED pc
       ELSE /\ ctx' = [route(ctx, options) EXCEPT !.stats.failed = @ + 1]
            /\ UNCHANGED pc
    /\ UNCHANGED <<options, idx, forever, ret, observed, statics, rc>>

\* the source yields no further packet
DriverEOF(t) ==
    /\ pc[t] = "driver"
    /\ ~ctx.abort /\ ~ctx.suspend
    /\ DriverReturnsClean(t, ctx)
    /\ UNCHANGED <<options, idx, forever, ret, observed, statics, rc>>

\* a failure of the driver that the loop notes and passes over
DriverError_goes_on(t) ==
    /\ pc[t] = "driver"
    /\ DriverReturnsClean(t, [ctx EXCEPT !.errstr = "driver error"])
    /\ UNCHANGED <<options, idx, forever, ret, observed, statics, rc>>

\* the source cannot be opened or read: rcode < 0; running = false; return -1
DriverError(t) ==
    /\ pc[t] = "driver"
    /\ ctx' = [ctx EXCEPT !.errstr = "driver error", !.running = FALSE]
    /\ Return(t, -1)
    /\ UNCHANGED <<options, statics, rc>>

(***************************************************************************)
(* Control and observer calls, from any thread at any time                 *)
(***************************************************************************)
\* sendpacket_abort(): flags the handle
sendpacket_abort(sp) == [sp EXCEPT !.abort = TRUE]

\* an abort that flips the flags instead of setting them
tcpreplay_abort_toggles(c) ==
    [c EXCEPT !.abort = ~@,
              !.intf1 = IF @.open THEN [@ EXCEPT !.abort = ~@] ELSE @,
              !.intf2 = IF @.open THEN [@ EXCEPT !.abort = ~@] ELSE @]

tcpreplay_abort(c) ==
    [c EXCEPT !.abort = TRUE,
              !.intf1 = IF @.open THEN sendpacket_abort(@) ELSE @,
              !.intf2 = IF @.open THEN sendpacket_abort(@) ELSE @]

tcpreplay_suspend(c) == [c EXCEPT !.suspend = TRUE]

\* a restart that also withdraws a pending abort
tcpreplay_restart_clears_abort(c) == [c EXCEPT !.suspend = FALSE, !.abort = FALSE]

tcpreplay_restart(c) == [c EXCEPT !.suspend = FALSE]

tcpreplay_is_suspended(c) == c.suspend

tcpreplay_is_running(c) == c.running

tcpreplay_get_current_source(c) == c.current_source

Abort ==
    /\ ctx' = tcpreplay_abort(ctx)
    /\ UNCHANGED <<options, pc, idx, forever, ret, observed, statics, rc>>

Suspend ==
    /\ ctx' = tcpreplay_suspend(ctx)
    /\ UNCHANGED <<options, pc, idx, forever, ret, observed, statics, rc>>

Restart ==
    /\ ctx' = tcpreplay_restart(ctx)
    /\ UNCHANGED <<options, pc, idx, forever, ret, observed, statics, rc>>

\* the observers read a flag and change nothing
IsRunning ==
    /\ tcpreplay_is_running(ctx) \in BOOLEAN
    /\ UNCHANGED vars

IsSuspended ==
    /\ tcpreplay_is_suspended(ctx) \in BOOLEAN
    /\ UNCHANGED vars

(***************************************************************************)
(* The statistics getters: each copies from ctx->stats into the one        *)
(* ctx->static_stats of the context and returns a pointer into it.         *)
(***************************************************************************)
tcpreplay_get_pkts_sent(c) == [c EXCEPT !.static_stats.pkts_sent = c.stats.pkts_sent]

tcpreplay_get_bytes_sent(c) == [c EXCEPT !.static_stats.bytes_sent = c.stats.bytes_sent]

tcpreplay_get_failed(c) == [c EXCEPT !.static_stats.failed = c.stats.failed]

\* "memcpy(&ctx->static_stats.start_time, &ctx->stats.end_time, ...)"
tcpreplay_get_start_time(c) == [c EXCEPT !.static_stats.start_time = c.stats.end_time]

tcpreplay_get_end_time(c) == [c EXCEPT !.static_stats.end_time = c.stats.end_time]

\* "memcpy(&ctx->static_stats, &ctx->stats, sizeof(tcpreplay_stats_t))"
tcpreplay_get_stats(c) == [c EXCEPT !.static_stats = c.stats]

GetPktsSent ==
    /\ ctx' = tcpreplay_get_pkts_sent(ctx)
    /\ UNCHANGED <<options, pc, idx, forever, ret, observed, statics, rc>>

GetBytesSent ==
    /\ ctx' = tcpreplay_get_bytes_sent(ctx)
    /\ UNCHANGED <<options, pc, idx, forever, ret, observed, statics, rc>>

GetFailed ==
    /\ ctx' = tcpreplay_get_failed(ctx)
    /\ UNCHANGED <<options, pc, idx, forever, ret, observed, statics, rc>>

GetStartTime ==
    /\ ctx' = tcpreplay_get_start_time(ctx)
    /\ UNCHANGED <<options, pc, idx, forever, ret, observed, statics, rc>>

GetEndTime ==
    /\ ctx' = tcpreplay_get_end_time(ctx)
    /\ UNCHANGED <<options, pc, idx, forever, ret, observed, statics, rc>>

GetStats ==
    /\ ctx' = tcpreplay_get_stats(ctx)
    /\ UNCHANGED <<options, pc, idx, forever, ret, observed, statics, rc>>

\* The memcpy of tcpreplay_get_stats takes no lock.  When the worker's
\* statistics update falls into the copy, every field of the buffer is the
\* field's value before the update or its value after it.
StatFields == {"pkts_sent", "bytes_sent", "failed", "start_time", "end_time"}

GetStatsDuringSend(t) ==
    /\ pc[t] = "driver"
    /\ ~ctx.abort /\ ~ctx.suspend
    /\ ctx.stats.pkts_sent + ctx.stats.failed < MaxSent
    /\ \E tv \in gettimeofday(ctx), late \in SUBSET StatFields :
          LET sent == packet_sent(route(ctx, options), tv)
              c    == [sent EXCEPT !.static_stats =
                          [f \in StatFields |-> IF f \in late THEN sent.stats[f]
                                                             ELSE ctx.stats[f]]]
          IN IF limit_reached(c, options)
             THEN DriverReturnsClean(t, c)
             ELSE ctx' = c /\ UNCHANGED pc
    /\ UNCHANGED <<options, idx, forever, ret, observed, statics, rc>>

(***************************************************************************)
(* tcpreplay_set_interface(ctx, intf, value)                               *)
(***************************************************************************)
\* get_interface(): the name, if the interface list holds it
get_interface(value) == IF value \in DOMAIN IntfList THEN value ELSE "NULL"

\* sendpacket_open(): a handle on the interface, or NULL
sendpacket_open(name, ok) ==
    IF ok THEN [open |-> TRUE, dlt |-> IntfList[name], abort |-> FALSE]
          ELSE NULL_HANDLE

\* the check that closes tcpreplay_set_interface, on the statics
dlt_mismatch(d1, d2) == d1 # NO_DLT /\ d2 # NO_DLT /\ d1 # d2

tcpreplay_set_interface(intf, value, ok) ==
    /\ Configuring
    /\ LET intname == get_interface(value)
           handle  == sendpacket_open(intname, ok)
       IN IF intname = "NULL"
          THEN /\ ctx' = seterr(ctx, "Invalid interface name/alias")
               /\ rc' = -1
               /\ UNCHANGED <<options, statics>>
          ELSE IF intf = "intf1"
          THEN /\ options' = [options EXCEPT !.intf1_name = intname]
               /\ IF ~handle.open
                  THEN /\ ctx' = [ctx EXCEPT !.intf1 = handle, !.errstr = "Can't open"]
                       /\ rc' = -1
                       /\ UNCHANGED statics
                  ELSE /\ int1dlt' = handle.dlt
                       /\ UNCHANGED int2dlt
                       /\ rc' = IF dlt_mismatch(handle.dlt, int2dlt) THEN -1 ELSE 0
                       /\ ctx' = [ctx EXCEPT !.intf1 = handle,
                                     !.errstr = IF dlt_mismatch(handle.dlt, int2dlt)
                                                THEN "DLT type missmatch" ELSE @]
          ELSE /\ options' = [options EXCEPT !.intf2_name = intname]
               /\ IF ~handle.open
                  THEN /\ ctx' = [ctx EXCEPT !.intf2 = handle, !.errstr = "Can't open"]
                       /\ rc' = -1
                       /\ UNCHANGED statics
                  ELSE /\ int2dlt' = handle.dlt
                       /\ UNCHANGED int1dlt
                       /\ rc' = IF dlt_mismatch(int1dlt, handle.dlt) THEN -1 ELSE 0
                       /\ ctx' = [ctx EXCEPT !.intf2 = handle,
                                     !.errstr = IF dlt_mismatch(int1dlt, handle.dlt)
                                                THEN "DLT type missmatch" ELSE @]
    /\ UNCHANGED <<pc, idx, forever, ret, observed>>

\* tcpreplay_set_interface called on another context of the process.  Of the
\* state of this model it touches the statics of the function, which all
\* contexts share; rc is the return value of the calls on this context.
tcpreplay_set_interface_other(intf, value, ok) ==
    /\ LET intname == get_interface(value)
           handle  == sendpacket_open(intname, ok)
       IN IF intname = "NULL" \/ ~handle.open
          THEN UNCHANGED statics
          ELSE IF intf = "intf1"
          THEN int1dlt' = handle.dlt /\ UNCHANGED int2dlt
          ELSE int2dlt' = handle.dlt /\ UNCHANGED int1dlt
    /\ UNCHANGED <<ctx, options, pc, idx, forever, ret, observed, rc>>

(***************************************************************************)
(* Specifications                                                          *)
(***************************************************************************)
\* The replay engine: the worker replays, other threads control and observe.
Next ==
    \/ \E type \in SourceTypes : tcpreplay_add_pcapfile(type) /\ UNCHANGED history
    \/ \E value \in 0 .. MaxLoop : tcpreplay_set_loop(value) /\ UNCHANGED history
    \/ \E t \in Workers, i \in IdxArgs : ReplayReject(t, i) /\ UNCHANGED history
    \/ \E t \in Workers, i \in IdxArgs : ReplayClockError(t, i) /\ UNCHANGED history
    \/ \E t \in Workers, i \in IdxArgs : ReplayStart(t, i) /\ UNCHANGED history
    \/ \E t \in Workers : WhileLimitedPass(t) /\ UNCHANGED history
    \/ \E t \in Workers : WhileLimitedExit(t) /\ UNCHANGED history
    \/ \E t \in Workers : WhileForeverPass(t) /\ UNCHANGED history
    \/ \E t \in Workers : ForDrive(t) /\ UNCHANGED history
    \/ \E t \in Workers : ForInvalidType(t) /\ UNCHANGED history
    \/ \E t \in Workers : ForDone(t) /\ UNCHANGED history
    \/ \E t \in Workers : DriverAbort(t) /\ UNCHANGED history
    \/ \E t \in Workers, sent \in BOOLEAN : DriverSend(t, sent) /\ UNCHANGED history
    \/ \E t \in Workers : DriverEOF(t) /\ UNCHANGED history
    \/ \E t \in Workers : DriverError(t) /\ UNCHANGED history
    \/ Abort /\ UNCHANGED history
    \/ Suspend /\ UNCHANGED history
    \/ Restart /\ UNCHANGED history
    \/ IsRunning /\ UNCHANGED history
    \/ IsSuspended /\ UNCHANGED history

Spec == Init /\ [][Next]_vars

\* The sources, the routing cache and the interfaces of a context that is not
\* replaying, with the control calls.
NextConfig ==
    \/ \E type \in SourceTypes : tcpreplay_add_pcapfile(type) /\ UNCHANGED history
    \/ tcpreplay_set_tcpprep_cache /\ UNCHANGED history
    \/ \E intf \in tcpreplay_intf, value \in IntfArgs, ok \in BOOLEAN :
          tcpreplay_set_interface(intf, value, ok) /\ UNCHANGED history
    \/ Abort /\ UNCHANGED history
    \/ Suspend /\ UNCHANGED history
    \/ Restart /\ UNCHANGED history

SpecConfig == Init /\ [][NextConfig]_vars

\* The option setters of a context that is not replaying.
NextOptions ==
    \/ \E value \in speed_modes : tcpreplay_set_speed_mode(value) /\ UNCHANGED history
    \/ \E value \in SpeedArgs : tcpreplay_set_speed_speed(value) /\ UNCHANGED history
    \/ \E value \in PpsMultiArgs : tcpreplay_set_speed_pps_multi(value) /\ UNCHANGED history
    \/ \E value \in MtuArgs : tcpreplay_set_mtu(value) /\ UNCHANGED history
    \/ \E value \in LimitArgs : tcpreplay_set_limit_send(value) /\ UNCHANGED history
    \/ \E callback \in CallbackArgs :
          tcpreplay_set_manual_callback(callback) /\ UNCHANGED history

SpecOptions == Init /\ [][NextOptions]_vars

\* The worker replays with a send limit.
NextLimit ==
    \/ \E type \in SourceTypes : tcpreplay_add_pcapfile(type) /\ UNCHANGED history
    \/ \E value \in 0 .. MaxLoop : tcpreplay_set_loop(value) /\ UNCHANGED history
    \/ \E value \in LimitArgs : tcpreplay_set_limit_send(value) /\ UNCHANGED history
    \/ \E t \in Workers, i \in IdxArgs :
          ReplayStart(t, i) /\ limit_hit' = FALSE /\ UNCHANGED <<held, trace, n0>>
    \/ \E t \in Workers : WhileLimitedPass(t) /\ UNCHANGED history
    \/ \E t \in Workers : WhileLimitedExit(t) /\ UNCHANGED history
    \/ \E t \in Workers : WhileForeverPass(t) /\ UNCHANGED history
    \/ \E t \in Workers : ForDrive(t) /\ UNCHANGED history
    \/ \E t \in Workers : ForInvalidType(t) /\ UNCHANGED history
    \/ \E t \in Workers : ForDone(t) /\ UNCHANGED history
    \/ \E t \in Workers, sent \in BOOLEAN :
          /\ DriverSend(t, sent)
          /\ limit_hit' = (limit_hit \/ (sent /\ limit_reached(ctx', options)))
          /\ UNCHANGED <<held, trace, n0>>
    \/ \E t \in Workers : DriverEOF(t) /\ UNCHANGED history
    \/ \E t \in Workers : DriverError(t) /\ UNCHANGED history

SpecLimit == Init /\ [][NextLimit]_vars

\* The worker replays while two observers read the statistics.  held follows
\* the first observer: tcpreplay_get_stats hands it the buffer, and its next
\* getter call ends its use of what that call returned.
Hold(o, buffer) == IF o = "first" THEN <<buffer>> ELSE held
Release(o) == IF o = "first" THEN << >> ELSE held

NextStats ==
    \/ \E type \in SourceTypes : tcpreplay_add_pcapfile(type) /\ UNCHANGED history
    \/ \E t \in Workers, i \in IdxArgs : ReplayStart(t, i) /\ UNCHANGED history
    \/ \E t \in Workers : WhileLimitedPass(t) /\ UNCHANGED history
    \/ \E t \in Workers : WhileLimitedExit(t) /\ UNCHANGED history
    \/ \E t \in Workers : ForDrive(t) /\ UNCHANGED history
    \/ \E t \in Workers : ForInvalidType(t) /\ UNCHANGED history
    \/ \E t \in Workers : ForDone(t) /\ UNCHANGED history
    \/ \E t \in Workers, sent \in BOOLEAN : DriverSend(t, sent) /\ UNCHANGED history
    \/ \E t \in Workers : DriverEOF(t) /\ UNCHANGED history
    \/ \E o \in Observers :
          GetStats /\ held' = Hold(o, ctx'.static_stats) /\ UNCHANGED <<limit_hit, trace, n0>>
    \/ \E o \in Observers, t \in Workers :
          /\ GetStatsDuringSend(t)
          /\ held' = Hold(o, ctx'.static_stats)
          /\ UNCHANGED <<limit_hit, trace, n0>>
    \/ \E o \in Observers :
          GetPktsSent /\ held' = Release(o) /\ UNCHANGED <<limit_hit, trace, n0>>
    \/ \E o \in Observers :
          GetBytesSent /\ held' = Release(o) /\ UNCHANGED <<limit_hit, trace, n0>>
    \/ \E o \in Observers :
          GetFailed /\ held' = Release(o) /\ UNCHANGED <<limit_hit, trace, n0>>
    \/ \E o \in Observers :
          GetStartTime /\ held' = Release(o) /\ UNCHANGED <<limit_hit, trace, n0>>
    \/ \E o \in Observers :
          GetEndTime /\ held' = Release(o) /\ UNCHANGED <<limit_hit, trace, n0>>

SpecStats == Init /\ [][NextStats]_vars

\* The worker replays a counted loop; trace records the source index
\* tcpreplay_get_current_source reports at each call of the driver, and n0 the
\* loop count the call started with.
NextPasses ==
    \/ \E type \in SourceTypes : tcpreplay_add_pcapfile(type) /\ UNCHANGED history
    \/ \E value \in 1 .. MaxLoop : tcpreplay_set_loop(value) /\ UNCHANGED history
    \/ \E t \in Workers, i \in IdxArgs :
          /\ ReplayStart(t, i)
          /\ n0' = options.loop /\ trace' = << >>
          /\ UNCHANGED <<limit_hit, held>>
    \/ \E t \in Workers : WhileLimitedPass(t) /\ UNCHANGED history
    \/ \E t \in Workers :
          WhileLimitedExit(t) /\ n0' = 0 /\ trace' = << >> /\ UNCHANGED <<limit_hit, held>>
    \/ \E t \in Workers :
          /\ ForDrive(t)
          /\ trace' = Append(trace, tcpreplay_get_current_source(ctx'))
          /\ UNCHANGED <<limit_hit, held, n0>>
    \/ \E t \in Workers :
          ForInvalidType(t) /\ n0' = 0 /\ trace' = << >> /\ UNCHANGED <<limit_hit, held>>
    \/ \E t \in Workers : ForDone(t) /\ UNCHANGED history
    \/ \E t \in Workers : DriverAbort(t) /\ UNCHANGED history
    \/ \E t \in Workers, sent \in BOOLEAN : DriverSend(t, sent) /\ UNCHANGED history
    \/ \E t \in Workers : DriverEOF(t) /\ UNCHANGED history
    \/ \E t \in Workers :
          DriverError(t) /\ n0' = 0 /\ trace' = << >> /\ UNCHANGED <<limit_hit, held>>
    \/ Abort /\ UNCHANGED history
    \/ Suspend /\ UNCHANGED history
    \/ Restart /\ UNCHANGED history

SpecPasses == Init /\ [][NextPasses]_vars

\* The worker's calls of tcpreplay_replay, counted loop and loop forever; n0
\* keeps the loop count the last call started with, also after its return.
NextCalls ==
    \/ \E type \in SourceTypes : tcpreplay_add_pcapfile(type) /\ UNCHANGED history
    \/ \E value \in 0 .. MaxLoop : tcpreplay_set_loop(value) /\ UNCHANGED history
    \/ \E t \in Workers, i \in IdxArgs :
          ReplayStart(t, i) /\ n0' = options.loop /\ UNCHANGED <<limit_hit, held, trace>>
    \/ \E t \in Workers : WhileLimitedPass(t) /\ UNCHANGED history
    \/ \E t \in Workers : WhileLimitedExit(t) /\ UNCHANGED history
    \/ \E t \in Workers : WhileForeverPass(t) /\ UNCHANGED history
    \/ \E t \in Workers : ForDrive(t) /\ UNCHANGED history
    \/ \E t \in Workers : ForInvalidType(t) /\ UNCHANGED history
    \/ \E t \in Workers : ForDone(t) /\ UNCHANGED history
    \/ \E t \in Workers, sent \in BOOLEAN : DriverSend(t, sent) /\ UNCHANGED history
    \/ \E t \in Workers : DriverEOF(t) /\ UNCHANGED history
    \/ \E t \in Workers : DriverError(t) /\ UNCHANGED history

SpecCalls == Init /\ [][NextCalls]_vars

\* The worker replays with a routing cache loaded.
NextCache ==
    \/ \E type \in SourceTypes : tcpreplay_add_pcapfile(type) /\ UNCHANGED history
    \/ \E value \in 0 .. MaxLoop : tcpreplay_set_loop(value) /\ UNCHANGED history
    \/ tcpreplay_set_tcpprep_cache /\ UNCHANGED history
    \/ \E t \in Workers, i \in IdxArgs : ReplayStart(t, i) /\ UNCHANGED history
    \/ \E t \in Workers : WhileLimitedPass(t) /\ UNCHANGED history
    \/ \E t \in Workers : WhileLimitedExit(t) /\ UNCHANGED history
    \/ \E t \in Workers : WhileForeverPass(t) /\ UNCHANGED history
    \/ \E t \in Workers : ForDrive(t) /\ UNCHANGED history
    \/ \E t \in Workers : ForInvalidType(t) /\ UNCHANGED history
    \/ \E t \in Workers : ForDone(t) /\ UNCHANGED history
    \/ \E t \in Workers, sent \in BOOLEAN : DriverSend(t, sent) /\ UNCHANGED history
    \/ \E t \in Workers : DriverEOF(t) /\ UNCHANGED history

SpecCache == Init /\ [][NextCache]_vars

\* Two contexts of one process are given their interfaces.
NextContexts ==
    \/ \E intf \in tcpreplay_intf, value \in IntfArgs, ok \in BOOLEAN :
          tcpreplay_set_interface(intf, value, ok) /\ UNCHANGED history
    \/ \E intf \in tcpreplay_intf, value \in IntfArgs, ok \in BOOLEAN :
          tcpreplay_set_interface_other(intf, value, ok) /\ UNCHANGED history

SpecContexts == Init /\ [][NextContexts]_vars

\* Two threads of the application call tcpreplay_replay on the same context.
NextTwo ==
    \/ \E type \in SourceTypes : tcpreplay_add_pcapfile(type) /\ UNCHANGED history
    \/ \E t \in Threads, i \in IdxArgs : ReplayReject(t, i) /\ UNCHANGED history
    \/ \E t \in Threads, i \in IdxArgs : ReplayStart(t, i) /\ UNCHANGED history
    \/ \E t \in Threads : WhileLimitedPass(t) /\ UNCHANGED history
    \/ \E t \in Threads : WhileLimitedExit(t) /\ UNCHANGED history
    \/ \E t \in Threads : ForDrive(t) /\ UNCHANGED history
    \/ \E t \in Threads : ForInvalidType(t) /\ UNCHANGED history
    \/ \E t \in Threads : ForDone(t) /\ UNCHANGED history
    \/ \E t \in Threads : DriverAbort(t) /\ UNCHANGED history
    \/ \E t \in Threads, sent \in BOOLEAN : DriverSend(t, sent) /\ UNCHANGED history
    \/ \E t \in Threads : DriverEOF(t) /\ UNCHANGED history
    \/ \E t \in Threads : DriverError(t) /\ UNCHANGED history
    \/ Abort /\ UNCHANGED history

SpecTwo == Init /\ [][NextTwo]_vars

(***************************************************************************)
(* Properties                                                              *)
(***************************************************************************)
InReplay(t) == pc[t] # "idle"

\* thread t returns from tcpreplay_replay in this step
Returns(t) ==
    \/ InReplay(t) /\ pc'[t] = "idle"
    \/ \E i \in IdxArgs : ReplayReject(t, i)
    \/ \E i \in IdxArgs : ReplayClockError(t, i)

\* the index arguments the documentation accepts: -1, and 0 .. source_cnt - 1
DocumentedIdx(i, source_cnt) == i = ALL_SOURCES \/ (0 <= i /\ i < source_cnt)

\* C1: tcpreplay_replay(ctx, idx) accepts idx = -1 and every idx with
\* 0 <= idx < source_cnt; it rejects every other idx with -1 and an error
\* message, and a rejected call does not set running.
C1_IdxAcceptedIffDocumented ==
    [][\A t \in Threads, i \in IdxArgs :
          /\ ReplayStart(t, i) => DocumentedIdx(i, options.source_cnt)
          /\ ReplayReject(t, i) =>
                /\ ~DocumentedIdx(i, options.source_cnt)
                /\ ret'[t] = <<-1>>
                /\ ctx'.running = ctx.running]_vars

\* C2: a replay called with a valid idx >= 0 (0 <= idx < source_cnt) hands
\* only source idx to the per-source driver.
C2_OnlySourceIdxDriven ==
    \A t \in Threads :
        (pc[t] = "driver" /\ 0 <= idx[t] /\ idx[t] < options.source_cnt)
            => ctx.current_source = idx[t]

\* C3: at most one replay is in progress per context: two threads are never
\* inside the replay loop of tcpreplay_replay at the same time.
C3_AtMostOneReplay ==
    Cardinality({t \in Threads : InReplay(t)}) <= 1

C5_EndTimeSetOnReturn ==
    [][\A t \in Threads :
          (InReplay(t) /\ pc'[t] = "idle" /\ ret'[t] = <<0>>) =>
              ctx'.stats.end_time >= ctx'.stats.start_time]_vars

\* C6: once the per-source driver has observed abort and stopped, the replay
\* drives no further source.
C6_NoSourceDrivenAfterAbort ==
    \A t \in Threads : ~(observed[t] /\ pc[t] = "driver")

C8_ReplayStartsUnaborted ==
    [][\A t \in Threads, i \in IdxArgs :
          (ReplayStart(t, i) /\ DocumentedIdx(i, options.source_cnt))
              => ~ctx'.abort]_vars

C10_CacheImpliesSingleSource ==
    options.cachedata => options.source_cnt = 1

\* C11: tcpreplay_add_pcapfile succeeds (returns 0, appends the file at index
\* source_cnt with cached = false, source_cnt grows by one) exactly when
\* source_cnt < MAX_FILES; at source_cnt = MAX_FILES it returns -1 and leaves
\* source_cnt and the sources as they are.  So source_cnt <= MAX_FILES in
\* every state, and the sources keep their insertion order.
C11_AddPcapfileUpToMaxFiles ==
    [][/\ options'.source_cnt <= MAX_FILES
       /\ Len(options'.sources) = options'.source_cnt
       /\ \A type \in SourceTypes :
             tcpreplay_add_pcapfile(type) =>
                IF options.source_cnt < MAX_FILES
                THEN /\ rc' = 0
                     /\ options'.source_cnt = options.source_cnt + 1
                     /\ SubSeq(options'.sources, 1, options.source_cnt) = options.sources
                     /\ options'.sources[options.source_cnt + 1].type = type
                     /\ ~options'.sources[options.source_cnt + 1].cached
                ELSE /\ rc' = -1
                     /\ options'.source_cnt = options.source_cnt
                     /\ options'.sources = options.sources]_vars

\* C11 witness: the array is full with files added in a recognisable order,
\* and a further tcpreplay_add_pcapfile has been refused.
C11_Witness ==
    /\ options.source_cnt = MAX_FILES
    /\ options.sources[1].type = "source_invalid"
    /\ options.sources[MAX_FILES].type = "source_filename"
    /\ rc = -1
    /\ ctx.errstr = "Unable to add more then MAX_FILES files"

\* C12: in every state reached through tcpreplay_set_interface calls, whether
\* they succeed or fail, intf2 is open if and only if intf2_name is set, and
\* if intf1 and intf2 are both open their link types (DLT) are the same.
C12_Intf2OpenIffNamedAndSameDlt ==
    /\ ctx.intf2.open <=> options.intf2_name # "NULL"
    /\ (ctx.intf1.open /\ ctx.intf2.open) => ctx.intf1.dlt = ctx.intf2.dlt

\* C13: the setters enforce the documented bounds: tcpreplay_set_mtu with
\* value < 64, tcpreplay_set_speed_pps_multi with value < 1,
\* tcpreplay_set_limit_send with value < -1 and tcpreplay_set_speed_speed
\* with value < 0 return -1 and leave the stored option as it is.
C13_SettersEnforceBounds ==
    [][/\ \A value \in MtuArgs :
             (tcpreplay_set_mtu(value) /\ value < 64) =>
                 (rc' = -1 /\ options'.mtu = options.mtu)
       /\ \A value \in PpsMultiArgs :
             (tcpreplay_set_speed_pps_multi(value) /\ value < 1) =>
                 (rc' = -1 /\ options'.speed.pps_multi = options.speed.pps_multi)
       /\ \A value \in LimitArgs :
             (tcpreplay_set_limit_send(value) /\ value < -1) =>
                 (rc' = -1 /\ options'.limit_send = options.limit_send)
       /\ \A value \in SpeedArgs :
             (tcpreplay_set_speed_speed(value) /\ value < 0) =>
                 (rc' = -1 /\ options'.speed.speed = options.speed.speed)]_vars

\* C14: tcpreplay_set_manual_callback stores the callback and returns 0 only
\* when the speed mode is speed_oneatatime; in every other speed mode it
\* returns -1, sets the error string and leaves the stored callback as it is.
C14_ManualCallbackOnlyOneAtATime ==
    [][\A callback \in CallbackArgs :
          tcpreplay_set_manual_callback(callback) =>
             IF options.speed.mode = "speed_oneatatime"
             THEN /\ rc' = 0
                  /\ options'.speed.manual_callback = callback
             ELSE /\ rc' = -1
                  /\ ctx'.errstr # ""
                  /\ options'.speed.manual_callback = options.speed.manual_callback]_vars

\* C14 witness: a callback was stored in manual mode, and after the mode was
\* changed a further tcpreplay_set_manual_callback has been refused.
C14_Witness ==
    /\ options.speed.manual_callback = "callback1"
    /\ options.speed.mode = "speed_topspeed"
    /\ rc = -1
    /\ ctx.errstr # ""

\* C15: with limit_send = L >= 0, once pkts_sent reaches L the entire replay
\* stops: after the send that reached the limit, the call in progress
\* drives no further source and no further pass (stated for L >= 1, where
\* the packet that reaches the limit is one the limit allows).
C15_ReplayStopsAtLimit ==
    \A t \in Workers :
        ~(limit_hit /\ options.limit_send >= 1 /\ pc[t] = "driver")

\* C16: tcpreplay_get_start_time returns the time the replay started: the
\* value it copies into static_stats.start_time is the live stats.start_time;
\* tcpreplay_get_end_time returns stats.end_time.
C16_GetStartTimeIsStartTime ==
    [][/\ GetStartTime => ctx'.static_stats.start_time = ctx.stats.start_time
       /\ GetEndTime => ctx'.static_stats.end_time = ctx.stats.end_time]_vars

\* C17: under every interleaving of the worker's statistics updates with the
\* observers' getter calls, a value a snapshot writes into a field of
\* static_stats is no greater than the live value of that field of stats at
\* the moment of the snapshot.
C17_SnapshotNotAboveLive ==
    [][\A f \in StatFields :
          ctx'.static_stats[f] # ctx.static_stats[f] =>
              ctx'.static_stats[f] <= ctx'.stats[f]]_vars

\* C20: the snapshot tcpreplay_get_stats returned does not change while its
\* caller uses it: from an observer's tcpreplay_get_stats call to that
\* observer's next call the buffer holds what was copied, whatever the worker
\* and the other observers do.
C20_SnapshotStableWhileHeld ==
    held # << >> => ctx.static_stats = held[1]

\* the driver calls of n passes over source_cnt sources: 0, 1, ...,
\* source_cnt - 1, n times over
ExpectedTrace(n, source_cnt) == [k \in 1 .. (n * source_cnt) |-> (k - 1) % source_cnt]

IsPrefix(s, t) == Len(s) <= Len(t) /\ SubSeq(t, 1, Len(s)) = s

C19_SuspendedOnlyWhileRunning ==
    tcpreplay_is_suspended(ctx) => tcpreplay_is_running(ctx)

\* C21: when the per-source driver fails or a source has an invalid type,
\* tcpreplay_replay sets running = false and returns -1 at once, in the
\* counted loop and in the loop forever: the call is over, so no later source
\* and no later pass is driven.
C21_FailureReturnsAtOnce ==
    [][\A t \in Workers :
          (ForInvalidType(t) \/ DriverError(t)) =>
              /\ ~ctx'.running
              /\ ret'[t] = <<-1>>
              /\ pc'[t] = "idle"]_vars

\* C21 witness: a call that started with loop = 0 (loop forever) over
\* MAX_FILES sources has returned -1 on a driver failure.
C21_Witness ==
    /\ n0 = 0
    /\ options.source_cnt = MAX_FILES
    /\ pc["worker"] = "idle"
    /\ ret["worker"] = <<-1>>
    /\ ~ctx.running
    /\ ctx.errstr = "driver error"

\* C22: before every call of the per-source driver, in every pass and for
\* every source, the cursor into the routing cache is reset: the driver
\* starts with cache_byte = 0 and cache_bit = 0.
C22_CursorResetBeforeDriver ==
    [][\A t \in Workers :
          (pc[t] # "driver" /\ pc'[t] = "driver") =>
              (ctx'.cache_byte = 0 /\ ctx'.cache_bit = 0)]_vars

\* C22 witness: with a routing cache loaded, the call in progress has routed
\* a packet, which moved the cursor, and the driver of a later source starts
\* with the cursor back at the first bit.
C22_Witness ==
    /\ options.cachedata
    /\ ctx.stats.end_time > ctx.stats.start_time
    /\ pc["worker"] = "driver"
    /\ ctx.current_source >= 1
    /\ ctx.cache_byte = 0 /\ ctx.cache_bit = 0

\* C23: the link type check of tcpreplay_set_interface depends only on the
\* context it is called on, whatever calls were made on another context: a
\* call reports a DLT mismatch only if both interfaces of its context are
\* open with different link types; a context with a single open interface
\* never gets the error.
C23_DltCheckOwnContextOnly ==
    [][\A intf \in tcpreplay_intf, value \in IntfArgs, ok \in BOOLEAN :
          (/\ tcpreplay_set_interface(intf, value, ok)
           /\ rc' = -1
           /\ ctx'.errstr = "DLT type missmatch") =>
              /\ ctx'.intf1.open /\ ctx'.intf2.open
              /\ ctx'.intf1.dlt # ctx'.intf2.dlt]_vars

\* C24: tcpreplay_replay leaves the configured options as they are: when it
\* returns, normally or on an error, options.loop has the value it had when
\* the call was entered.
C24_ReplayLeavesLoop ==
    [][\A t \in Workers :
          (InReplay(t) /\ pc'[t] = "idle") => options'.loop = n0]_vars

\* C25: whenever source_cnt > 0, tcpreplay_get_current_source returns a valid
\* source index, 0 <= value < source_cnt, at every moment an observer can
\* call it: before, during, between the passes of, and after tcpreplay_replay.
C25_CurrentSourceIsAnIndex ==
    options.source_cnt > 0 =>
        /\ 0 <= tcpreplay_get_current_source(ctx)
        /\ tcpreplay_get_current_source(ctx) < options.source_cnt

====
